---------------------------- MODULE Spec2Model ----------------------------
(***************************************************************************)
(* Model of src/app.py: the AXANET customer manager.                       *)
(*                                                                         *)
(* Strings are sequences of characters.  A character is a TLA+ string      *)
(* token; the accented letters are written in ASCII as the letter and the  *)
(* accent: "a-acute", "a-grave", "a-uml", ..., and "n-tilde" (a letter     *)
(* normalize_name does not map); their capitals are "A-acute", ...         *)
(* Timestamps (now_iso) are not modelled: no decision in the code reads    *)
(* them.  uuid.uuid4() is modelled as a fresh number.                      *)
(***************************************************************************)
EXTENDS Integers, Sequences, FiniteSets, TLC

VARIABLES
    index,       \* main(): the in-memory index, key -> filename
    disk_index,  \* contents of data/index.json
    files,       \* data/clients: filename -> customer record
    log,         \* logs/queries.log, one entry per line
    uuid,        \* number of uuid4() values drawn so far
    pc,          \* position of the process: "menu" or "delete_removed"
    local,       \* delete_client's locals (key, path) while pc = "delete_removed"
    req,         \* the inputs typed for the operation that ran last
    result,      \* the outcome that operation reported
    deleted,     \* history: key -> filename of confirmed deletes, until re-created
    submitted,   \* history: filename -> requests submitted for it, in order
    consults,    \* history: number of consults that printed a record
    x,           \* normalisation check: the input string
    once,        \* normalisation check: normalize_name(x)
    twice,       \* normalisation check: normalize_name(once)
    npc          \* normalisation check: position

vars == <<index, disk_index, files, log, uuid, pc, local, req, result,
          deleted, submitted, consults, x, once, twice, npc>>

-----------------------------------------------------------------------------
(* Bounds *)

MaxLen == 3
MaxUuid == 4
MaxLog == 1

-----------------------------------------------------------------------------
(* Characters *)

LowerAscii ==
    {"a","b","c","d","e","f","g","h","i","j","k","l","m",
     "n","o","p","q","r","s","t","u","v","w","x","y","z"}

Digits == {"0","1","2","3","4","5","6","7","8","9"}

Whitespace == {" ", "\t"}

UpperChars ==
    <<"A","B","C","D","E","F","G","H","I","J","K","L","M",
      "N","O","P","Q","R","S","T","U","V","W","X","Y","Z",
      "A-acute","E-acute","I-acute","O-acute","U-acute",
      "A-grave","E-grave","I-grave","O-grave","U-grave",
      "A-uml","E-uml","I-uml","O-uml","U-uml","N-tilde">>

LowerChars ==
    <<"a","b","c","d","e","f","g","h","i","j","k","l","m",
      "n","o","p","q","r","s","t","u","v","w","x","y","z",
      "a-acute","e-acute","i-acute","o-acute","u-acute",
      "a-grave","e-grave","i-grave","o-grave","u-grave",
      "a-uml","e-uml","i-uml","o-uml","u-uml","n-tilde">>

LowerOf ==
    [c \in {UpperChars[i] : i \in 1..Len(UpperChars)} |->
        LowerChars[CHOOSE i \in 1..Len(UpperChars) : UpperChars[i] = c]]

\* str.lower() on one character
Lower(c) == IF c \in DOMAIN LowerOf THEN LowerOf[c] ELSE c

\* the five accent substitutions of normalize_name, on one character
Unaccent(c) ==
    CASE c \in {"a-acute", "a-grave", "a-uml"} -> "a"
      [] c \in {"e-acute", "e-grave", "e-uml"} -> "e"
      [] c \in {"i-acute", "i-grave", "i-uml"} -> "i"
      [] c \in {"o-acute", "o-grave", "o-uml"} -> "o"
      [] c \in {"u-acute", "u-grave", "u-uml"} -> "u"
      [] OTHER -> c

-----------------------------------------------------------------------------
(* String functions *)

RECURSIVE LStrip(_)
LStrip(s) ==
    IF s # <<>> /\ Head(s) \in Whitespace THEN LStrip(Tail(s)) ELSE s

RECURSIVE RStrip(_)
RStrip(s) ==
    IF s # <<>> /\ s[Len(s)] \in Whitespace
    THEN RStrip(SubSeq(s, 1, Len(s) - 1))
    ELSE s

\* str.strip()
Strip(s) == RStrip(LStrip(s))

\* str.lower()
LowerStr(s) == [i \in 1..Len(s) |-> Lower(s[i])]

\* the class [a-z0-9 ]
KeyChars == LowerAscii \cup Digits \cup {" "}

\* re.sub(r"[^a-z0-9 ]", "", s)
RECURSIVE KeepKeyChars(_)
KeepKeyChars(s) ==
    IF s = <<>> THEN <<>>
    ELSE IF Head(s) \in KeyChars
         THEN <<Head(s)>> \o KeepKeyChars(Tail(s))
         ELSE KeepKeyChars(Tail(s))

\* re.sub(r"\s+", " ", s)
RECURSIVE CollapseSpaces(_)
CollapseSpaces(s) ==
    IF s = <<>> THEN <<>>
    ELSE IF Head(s) \in Whitespace
         THEN <<" ">> \o CollapseSpaces(LStrip(Tail(s)))
         ELSE <<Head(s)>> \o CollapseSpaces(Tail(s))

normalize_name(name) ==
    LET stripped == LowerStr(Strip(name))
        plain    == [i \in 1..Len(stripped) |-> Unaccent(stripped[i])]
    IN  CollapseSpaces(KeepKeyChars(plain))

slugify(name) ==
    LET k == normalize_name(name)
    IN  [i \in 1..Len(k) |-> IF k[i] = " " THEN "-" ELSE k[i]]

-----------------------------------------------------------------------------
(* Inputs typed at the prompts *)

NameInputs ==
    { <<" ">>,
      <<"!">>,
      <<"A","n","a">>,
      <<" ","a-acute","N","A","\t">>,
      <<"B","o">> }

TipoInputs == { <<>> }

ContactoInputs == { <<>> }

NuevoInputs == { <<" ">>, <<"m","a","i","l"," ">> }

ServicioInputs == { <<" ">>, <<"T","V">> }

DescripcionInputs == { <<>>, <<" ","a","l","t","a">> }

OptInputs == { <<"1">>, <<" ","2">>, <<"3">> }

ConfirmInputs == { <<"n","o">>, <<" ","S","I">> }

-----------------------------------------------------------------------------
(* Dictionaries and the file system *)

EmptyMap == [k \in {} |-> k]

\* d[k] = v
Put(d, k, v) == [z \in DOMAIN d \cup {k} |-> IF z = k THEN v ELSE d[z]]

\* a history mapping without k
Without(d, k) == [z \in DOMAIN d \ {k} |-> d[z]]

\* mutant: the key is left in the index
RemoveKey_Keep(idx, key) == idx

\* del index[key]
RemoveKey(idx, key) == [z \in DOMAIN idx \ {key} |-> idx[z]]

\* mutant: the record file is left in place
RemoveFile_Keep(fs, path) == fs

\* os.remove(path)
RemoveFile(fs, path) == [z \in DOMAIN fs \ {path} |-> fs[z]]

\* Python's None, and the empty string where the code tests "not filename"
None == <<>>

\* f"{customer_id}_{slugify(name)}.json"
Filename(customer_id, name) == <<customer_id, slugify(name)>>

\* load_index(): the saved mapping, or {} when index.json does not exist
load_index(disk) == disk

\* mutant: the line is tested and returned without .strip()
require_non_empty_Unstripped(typed) == typed

\* require_non_empty(): the stripped line, "" when nothing is left
require_non_empty(typed) == Strip(typed)

\* input(...).strip() or default
OrDefault(typed, default) == IF Strip(typed) = <<>> THEN default ELSE Strip(typed)

Persona == <<"P","e","r","s","o","n","a">>
NA == <<"N","/","A">>
Si == <<"s","i">>

find_client_file(idx, fs, name) ==
    LET key == normalize_name(name)
        filename == IF key \in DOMAIN idx THEN idx[key] ELSE None
    IN  IF filename = None THEN None
        ELSE IF filename \notin DOMAIN fs THEN None
        ELSE filename

\* one entry of "solicitudes"
Solicitud(request_id, servicio, descripcion) ==
    [request_id |-> request_id, servicio |-> servicio,
     descripcion |-> descripcion, canal |-> "call center"]

\* the record create_client builds
Cliente(customer_id, name, tipo, contacto, request_id, servicio, descripcion) ==
    [customer_id |-> customer_id, nombre |-> name, tipo_cliente |-> tipo,
     contacto |-> contacto,
     solicitudes |-> <<Solicitud(request_id, servicio, descripcion)>>]

\* mutant: the new request is put first
AppendSolicitud_Prepend(cliente, solicitud) ==
    [cliente EXCEPT !.solicitudes = <<solicitud>> \o @]

\* cliente["solicitudes"].append(...)
AppendSolicitud(cliente, solicitud) ==
    [cliente EXCEPT !.solicitudes = Append(@, solicitud)]

\* cliente["contacto"] = nuevo
SetContacto(cliente, nuevo) == [cliente EXCEPT !.contacto = nuevo]

\* mutant: the normalized key is logged instead of the name
LogLine_Key(name) == <<"CONSULTA", normalize_name(name)>>

\* the line consult_client writes to queries.log (without its timestamp)
LogLine(name) == <<"CONSULTA", name>>

\* what the operation that ran last was given: its name line and the lines
\* typed at the later prompts, in order
Request(op, name, args) == [op |-> op, name |-> name, args |-> args]

NoRequest == Request("none", <<>>, <<>>)
NoLocal == [key |-> <<>>, path |-> None]

-----------------------------------------------------------------------------
(* The state after construction: no index.json, no record, no log line *)

InitStore ==
    /\ disk_index = EmptyMap
    /\ index = load_index(disk_index)
    /\ files = EmptyMap
    /\ log = <<>>
    /\ uuid = 0
    /\ pc = "menu"
    /\ local = NoLocal
    /\ req = NoRequest
    /\ result = "none"
    /\ deleted = EmptyMap
    /\ submitted = EmptyMap
    /\ consults = 0

Init ==
    /\ InitStore
    /\ x = <<>>
    /\ once = <<>>
    /\ twice = <<>>
    /\ npc = "idle"

-----------------------------------------------------------------------------
(* Operations of the menu.  Each is the handler and what main() does right *)
(* after it (create and delete are followed by index = load_index()).      *)

\* option 1
List ==
    /\ pc = "menu"
    /\ req' = Request("list", <<>>, <<>>)
    /\ result' = IF DOMAIN index = {} THEN "Empty" ELSE "OK"
    /\ UNCHANGED <<index, disk_index, files, log, uuid, pc, local,
                   deleted, submitted, consults, x, once, twice, npc>>

\* option 2
Consult(name_in) ==
    /\ pc = "menu"
    /\ LET name == require_non_empty(name_in)
           path == find_client_file(index, files, name)
       IN  /\ req' = Request("consult", name_in, <<>>)
           /\ IF name = <<>>
              THEN /\ result' = "EmptyInput"
                   /\ UNCHANGED <<log, consults>>
              ELSE IF path = None
              THEN /\ result' = "NotFound"
                   /\ UNCHANGED <<log, consults>>
              ELSE IF path \notin DOMAIN files
              THEN \* open(path) raises FileNotFoundError
                   /\ result' = "Error"
                   /\ UNCHANGED <<log, consults>>
              ELSE /\ Len(log) < MaxLog
                   /\ log' = Append(log, LogLine(name))
                   /\ consults' = consults + 1
                   /\ result' = "OK"
    /\ UNCHANGED <<index, disk_index, files, uuid, pc, local,
                   deleted, submitted, x, once, twice, npc>>

\* option 3
Create(name_in) ==
    /\ pc = "menu"
    /\ LET name == require_non_empty(name_in)
           key  == normalize_name(name)
       IN  IF name = <<>>
           THEN /\ req' = Request("create", name_in, <<>>)
                /\ result' = "EmptyInput"
                /\ UNCHANGED <<disk_index, files, uuid, deleted, submitted>>
           ELSE IF key \in DOMAIN index
           THEN /\ req' = Request("create", name_in, <<>>)
                /\ result' = "Conflict"
                /\ UNCHANGED <<disk_index, files, uuid, deleted, submitted>>
           ELSE \E tipo_in \in TipoInputs, contacto_in \in ContactoInputs,
                   servicio_in \in ServicioInputs :
                LET tipo     == OrDefault(tipo_in, Persona)
                    contacto == OrDefault(contacto_in, NA)
                    servicio == require_non_empty(servicio_in)
                IN  IF servicio = <<>>
                    THEN /\ req' = Request("create", name_in,
                                      <<tipo_in, contacto_in, servicio_in>>)
                         /\ result' = "EmptyInput"
                         /\ UNCHANGED <<disk_index, files, uuid, deleted, submitted>>
                    ELSE \E descripcion_in \in DescripcionInputs :
                         LET descripcion == require_non_empty(descripcion_in)
                             customer_id == uuid + 1
                             request_id  == uuid + 2
                             filename    == Filename(customer_id, name)
                             cliente     == Cliente(customer_id, name, tipo,
                                                    contacto, request_id,
                                                    servicio, descripcion)
                         IN  /\ req' = Request("create", name_in,
                                          <<tipo_in, contacto_in, servicio_in,
                                            descripcion_in>>)
                             /\ IF descripcion = <<>>
                                THEN /\ result' = "EmptyInput"
                                     /\ UNCHANGED <<disk_index, files, uuid,
                                                    deleted, submitted>>
                                ELSE /\ uuid + 2 <= MaxUuid
                                     /\ uuid' = uuid + 2
                                     /\ files' = Put(files, filename, cliente)
                                     /\ disk_index' = Put(index, key, filename)
                                     /\ result' = "OK"
                                     /\ deleted' = Without(deleted, key)
                                     /\ submitted' = Put(submitted, filename,
                                                         cliente.solicitudes)
    /\ index' = load_index(disk_index')
    /\ UNCHANGED <<log, pc, local, consults, x, once, twice, npc>>

\* option 4
Modify(name_in) ==
    /\ pc = "menu"
    /\ LET name == require_non_empty(name_in)
           path == find_client_file(index, files, name)
       IN  IF name = <<>>
           THEN /\ req' = Request("modify", name_in, <<>>)
                /\ result' = "EmptyInput"
                /\ UNCHANGED <<files, uuid, submitted>>
           ELSE IF path = None
           THEN /\ req' = Request("modify", name_in, <<>>)
                /\ result' = "NotFound"
                /\ UNCHANGED <<files, uuid, submitted>>
           ELSE IF path \notin DOMAIN files
           THEN \* open(path) raises FileNotFoundError
                /\ req' = Request("modify", name_in, <<>>)
                /\ result' = "Error"
                /\ UNCHANGED <<files, uuid, submitted>>
           ELSE \E opt_in \in OptInputs :
                LET opt == Strip(opt_in)
                IN  IF opt = <<"1">>
                    THEN \E nuevo_in \in NuevoInputs :
                         LET nuevo == require_non_empty(nuevo_in)
                         IN  /\ req' = Request("modify", name_in,
                                               <<opt_in, nuevo_in>>)
                             /\ IF nuevo = <<>>
                                THEN /\ result' = "EmptyInput"
                                     /\ UNCHANGED <<files, uuid, submitted>>
                                ELSE /\ files' = Put(files, path,
                                            SetContacto(files[path], nuevo))
                                     /\ result' = "OK"
                                     /\ UNCHANGED <<uuid, submitted>>
                    ELSE IF opt = <<"2">>
                    THEN \E servicio_in \in ServicioInputs :
                         LET servicio == require_non_empty(servicio_in)
                         IN  IF servicio = <<>>
                             THEN /\ req' = Request("modify", name_in,
                                                    <<opt_in, servicio_in>>)
                                  /\ result' = "EmptyInput"
                                  /\ UNCHANGED <<files, uuid, submitted>>
                             ELSE \E descripcion_in \in DescripcionInputs :
                                  LET descripcion ==
                                          require_non_empty(descripcion_in)
                                      solicitud ==
                                          Solicitud(uuid + 1, servicio, descripcion)
                                  IN  /\ req' = Request("modify", name_in,
                                             <<opt_in, servicio_in, descripcion_in>>)
                                      /\ IF descripcion = <<>>
                                         THEN /\ result' = "EmptyInput"
                                              /\ UNCHANGED <<files, uuid, submitted>>
                                         ELSE /\ uuid + 1 <= MaxUuid
                                              /\ uuid' = uuid + 1
                                              /\ files' = Put(files, path,
                                                     AppendSolicitud(files[path],
                                                                     solicitud))
                                              /\ result' = "OK"
                                              /\ submitted' = Put(submitted, path,
                                                     Append(submitted[path],
                                                            solicitud))
                    ELSE /\ req' = Request("modify", name_in, <<opt_in>>)
                         /\ result' = "InvalidSelector"
                         /\ UNCHANGED <<files, uuid, submitted>>
    /\ UNCHANGED <<index, disk_index, log, pc, local, deleted, consults,
                   x, once, twice, npc>>

\* option 5
Delete(name_in) ==
    /\ pc = "menu"
    /\ LET name == require_non_empty(name_in)
           key  == normalize_name(name)
           path == find_client_file(index, files, name)
       IN  IF name = <<>>
           THEN /\ req' = Request("delete", name_in, <<>>)
                /\ result' = "EmptyInput"
                /\ UNCHANGED <<disk_index, files, deleted, submitted>>
           ELSE IF path = None
           THEN /\ req' = Request("delete", name_in, <<>>)
                /\ result' = "NotFound"
                /\ UNCHANGED <<disk_index, files, deleted, submitted>>
           ELSE \E confirm_in \in ConfirmInputs :
                LET confirm == LowerStr(Strip(confirm_in))
                IN  /\ req' = Request("delete", name_in, <<confirm_in>>)
                    /\ IF confirm # Si
                       THEN /\ result' = "Cancelled"
                            /\ UNCHANGED <<disk_index, files, deleted, submitted>>
                       ELSE /\ files' = RemoveFile(files, path)
                            /\ disk_index' = IF key \in DOMAIN index
                                             THEN RemoveKey(index, key)
                                             ELSE disk_index
                            /\ result' = "OK"
                            /\ deleted' = Put(deleted, key, path)
                            /\ submitted' = Without(submitted, path)
    /\ index' = load_index(disk_index')
    /\ UNCHANGED <<log, uuid, pc, local, consults, x, once, twice, npc>>

-----------------------------------------------------------------------------
(* delete_client step by step, for the states inside a confirmed delete *)

\* mutant: the index entry is removed and saved first, the file is left for
\* the second step
DeleteRemove_IndexFirst(name_in) ==
    /\ pc = "menu"
    /\ LET name == require_non_empty(name_in)
           key  == normalize_name(name)
           path == find_client_file(index, files, name)
       IN  IF name = <<>>
           THEN /\ req' = Request("delete", name_in, <<>>)
                /\ result' = "EmptyInput"
                /\ index' = load_index(disk_index)
                /\ UNCHANGED <<disk_index, files, pc, local, submitted>>
           ELSE IF path = None
           THEN /\ req' = Request("delete", name_in, <<>>)
                /\ result' = "NotFound"
                /\ index' = load_index(disk_index)
                /\ UNCHANGED <<disk_index, files, pc, local, submitted>>
           ELSE \E confirm_in \in ConfirmInputs :
                LET confirm == LowerStr(Strip(confirm_in))
                IN  /\ req' = Request("delete", name_in, <<confirm_in>>)
                    /\ IF confirm # Si
                       THEN /\ result' = "Cancelled"
                            /\ index' = load_index(disk_index)
                            /\ UNCHANGED <<disk_index, files, pc, local, submitted>>
                       ELSE /\ index' = RemoveKey(index, key)
                            /\ disk_index' = index'
                            /\ pc' = "delete_removed"
                            /\ local' = [key |-> key, path |-> path]
                            /\ result' = "Deleting"
                            /\ UNCHANGED <<files, submitted>>
    /\ UNCHANGED <<log, uuid, deleted, consults, x, once, twice, npc>>

\* delete_client up to and including os.remove(path)
DeleteRemove(name_in) ==
    /\ pc = "menu"
    /\ LET name == require_non_empty(name_in)
           key  == normalize_name(name)
           path == find_client_file(index, files, name)
       IN  IF name = <<>>
           THEN /\ req' = Request("delete", name_in, <<>>)
                /\ result' = "EmptyInput"
                /\ index' = load_index(disk_index)
                /\ UNCHANGED <<files, pc, local, submitted>>
           ELSE IF path = None
           THEN /\ req' = Request("delete", name_in, <<>>)
                /\ result' = "NotFound"
                /\ index' = load_index(disk_index)
                /\ UNCHANGED <<files, pc, local, submitted>>
           ELSE \E confirm_in \in ConfirmInputs :
                LET confirm == LowerStr(Strip(confirm_in))
                IN  /\ req' = Request("delete", name_in, <<confirm_in>>)
                    /\ IF confirm # Si
                       THEN /\ result' = "Cancelled"
                            /\ index' = load_index(disk_index)
                            /\ UNCHANGED <<files, pc, local, submitted>>
                       ELSE /\ files' = RemoveFile(files, path)
                            /\ pc' = "delete_removed"
                            /\ local' = [key |-> key, path |-> path]
                            /\ result' = "Deleting"
                            /\ submitted' = Without(submitted, path)
                            /\ UNCHANGED index
    /\ UNCHANGED <<disk_index, log, uuid, deleted, consults, x, once, twice, npc>>

\* the rest of delete_client, and main()'s reload
DeleteIndex ==
    /\ pc = "delete_removed"
    /\ disk_index' = IF local.key \in DOMAIN index
                     THEN RemoveKey(index, local.key)
                     ELSE disk_index
    /\ index' = load_index(disk_index')
    /\ pc' = "menu"
    /\ local' = NoLocal
    /\ result' = "OK"
    /\ deleted' = Put(deleted, local.key, local.path)
    /\ UNCHANGED <<files, log, uuid, req, submitted, consults,
                   x, once, twice, npc>>

\* the process dies after os.remove(path) and is started again: main()
\* begins with index = load_index()
Crash ==
    /\ pc = "delete_removed"
    /\ index' = load_index(disk_index)
    /\ pc' = "menu"
    /\ local' = NoLocal
    /\ result' = "Crashed"
    /\ UNCHANGED <<disk_index, files, log, uuid, req, deleted, submitted,
                   consults, x, once, twice, npc>>

-----------------------------------------------------------------------------
(* normalize_name applied once and twice to an arbitrary string *)

Chars == {"a", "B", "7", "e-acute", "U-uml", "n-tilde", "!", " ", "\t"}

Strings == UNION {[1..n -> Chars] : n \in 0..MaxLen}

InitNorm ==
    /\ InitStore
    /\ x \in Strings
    /\ once = <<>>
    /\ twice = <<>>
    /\ npc = "start"

NormalizeOnce ==
    /\ npc = "start"
    /\ once' = normalize_name(x)
    /\ npc' = "once"
    /\ UNCHANGED <<index, disk_index, files, log, uuid, pc, local, req, result,
                   deleted, submitted, consults, x, twice>>

NormalizeTwice ==
    /\ npc = "once"
    /\ twice' = normalize_name(once)
    /\ npc' = "done"
    /\ UNCHANGED <<index, disk_index, files, log, uuid, pc, local, req, result,
                   deleted, submitted, consults, x, once>>

-----------------------------------------------------------------------------
(* Specifications *)

Next ==
    \/ List
    \/ \E n \in NameInputs : Consult(n)
    \/ \E n \in NameInputs : Create(n)
    \/ \E n \in NameInputs : Modify(n)
    \/ \E n \in NameInputs : Delete(n)

Spec == Init /\ [][Next]_vars

NextCrash ==
    \/ List
    \/ \E n \in NameInputs : Consult(n)
    \/ \E n \in NameInputs : Create(n)
    \/ \E n \in NameInputs : Modify(n)
    \/ \E n \in NameInputs : DeleteRemove(n)
    \/ DeleteIndex
    \/ Crash

SpecCrash == Init /\ [][NextCrash]_vars

NextNorm == NormalizeOnce \/ NormalizeTwice

SpecNorm == InitNorm /\ [][NextNorm]_vars

-----------------------------------------------------------------------------
(* Properties *)

\* a typed line with nothing left after trimming
Blank(typed) == Strip(typed) = <<>>

\* resolving a typed name in the given index and record store
Resolves(idx, fs, typed) ==
    ~Blank(typed) /\ find_client_file(idx, fs, typed) # None

StorePersisted == <<disk_index, files, log>>

\* C1: after any sequence of completed operations from the empty store, every
\* key of the persisted index maps to the storage identifier of a record file
\* that exists, and no two keys map to the same storage identifier.
IndexStoreConsistent ==
    /\ \A k \in DOMAIN disk_index : disk_index[k] \in DOMAIN files
    /\ \A k1, k2 \in DOMAIN disk_index :
          disk_index[k1] = disk_index[k2] => k1 = k2

\* two customers are indexed at once
IndexStoreWitness ==
    /\ Cardinality(DOMAIN disk_index) >= 2
    /\ req.op = "create"
    /\ result = "OK"

\* C2: a create with a name whose normalized key is already a key of the
\* index fails with Conflict and writes nothing: the record files, the index
\* in memory and the persisted index stay as they were.
CreateExistingKeyConflicts ==
    [][ (req'.op = "create" /\ normalize_name(req'.name) \in DOMAIN index)
        => /\ result' = "Conflict"
           /\ files' = files
           /\ index' = index
           /\ disk_index' = disk_index ]_vars

\* C3: after a confirmed, completed delete and until a create of the same key,
\* the key is in neither index, the record file at the former storage
\* identifier does not exist, no name with that key resolves, and consult,
\* modify and delete of such a name report NotFound.
DeletionConsistent ==
    /\ [](\A k \in DOMAIN deleted :
            /\ k \notin DOMAIN index
            /\ k \notin DOMAIN disk_index
            /\ deleted[k] \notin DOMAIN files
            /\ \A n \in NameInputs :
                  normalize_name(n) = k => ~Resolves(index, files, n))
    /\ [][ ( /\ req'.op \in {"consult", "modify", "delete"}
             /\ ~Blank(req'.name)
             /\ normalize_name(req'.name) \in DOMAIN deleted )
           => result' = "NotFound" ]_vars

\* a deleted customer is consulted and not found
DeletionWitness ==
    /\ req.op = "consult"
    /\ result = "NotFound"
    /\ normalize_name(req.name) \in DOMAIN deleted

\* the inputs of a create, modify or delete that the operation must reject
Rejected(r) ==
    \/ /\ r.op = "create"
       /\ \/ Blank(r.name)
          \/ Len(r.args) >= 3 /\ Blank(r.args[3])
          \/ Len(r.args) >= 4 /\ Blank(r.args[4])
    \/ /\ r.op = "modify"
       /\ Len(r.args) >= 1
       /\ \/ Strip(r.args[1]) \notin {<<"1">>, <<"2">>}
          \/ Len(r.args) >= 2 /\ Blank(r.args[2])
          \/ Len(r.args) >= 3 /\ Blank(r.args[3])
    \/ /\ r.op = "delete"
       /\ Len(r.args) >= 1
       /\ LowerStr(Strip(r.args[1])) # Si

\* C4: a create with an empty name, service or description, a modify with an
\* empty new contact, service or description or an invalid selector, and a
\* delete that is not confirmed leave the persisted index, the record files
\* and the query log as they were.
RejectedNoSideEffects ==
    [][ Rejected(req') => StorePersisted' = StorePersisted ]_vars

\* a modify is rejected while a record and a log line exist
RejectedWitness ==
    /\ req.op = "modify"
    /\ Rejected(req)
    /\ result \in {"EmptyInput", "InvalidSelector"}
    /\ DOMAIN files # {}
    /\ log # <<>>

\* C5: a record is created with exactly one request; every successful
\* modify-append adds the submitted request at the end and nothing else
\* changes the sequence, so it is the requests submitted, in order, and is
\* never empty.
RequestsAppendOnly ==
    /\ [](\A f \in DOMAIN files :
            /\ files[f].solicitudes = submitted[f]
            /\ files[f].solicitudes # <<>>)
    /\ [][ \A f \in DOMAIN files' :
             LET new == files'[f].solicitudes
             IN  IF f \in DOMAIN files
                 THEN LET old == files[f].solicitudes
                      IN  \/ new = old
                          \/ /\ req'.op = "modify"
                             /\ result' = "OK"
                             /\ Len(new) = Len(old) + 1
                             /\ SubSeq(new, 1, Len(old)) = old
                             /\ new[Len(new)].servicio = Strip(req'.args[2])
                             /\ new[Len(new)].descripcion = Strip(req'.args[3])
                 ELSE /\ req'.op = "create"
                      /\ Len(new) = 1 ]_vars

\* a record with two appended requests and an updated contact
RequestsWitness ==
    \E f \in DOMAIN files :
        /\ Len(files[f].solicitudes) = 3
        /\ files[f].contacto # NA

NormalizeIdempotent == npc = "done" => twice = once

\* C8: the index never has the empty string as a key, and a create whose
\* name normalizes to the empty string does not succeed.
EmptyKeyRejected ==
    /\ <<>> \notin DOMAIN index
    /\ <<>> \notin DOMAIN disk_index
    /\ (req.op = "create" /\ normalize_name(req.name) = <<>>) => result # "OK"

\* C9: the record file is removed before the index entry, so at every point
\* of a delete, and after a crash between its two steps, no record file is
\* without an index entry, the customer being deleted has its index entry
\* and no file, and resolving a name gives an existing record or nothing and
\* no operation ends in an error.
DeleteOrderSafe ==
    /\ \A f \in DOMAIN files : \E k \in DOMAIN disk_index : disk_index[k] = f
    /\ \A f \in DOMAIN files : \E k \in DOMAIN index : index[k] = f
    /\ pc = "delete_removed" =>
          /\ local.path \notin DOMAIN files
          /\ local.key \in DOMAIN disk_index
          /\ disk_index[local.key] = local.path
    /\ \A n \in NameInputs :
          LET path == find_client_file(index, files, n)
          IN  path = None \/ path \in DOMAIN files
    /\ result # "Error"

\* after a crash inside a delete an index entry points to no record
DeleteOrderWitness ==
    /\ result = "Crashed"
    /\ \E k \in DOMAIN disk_index : disk_index[k] \notin DOMAIN files

\* C10: whenever a name resolves to nothing, a create with that name and a
\* non-empty service and description succeeds, and the name then resolves.
\* (Stated for the names with a non-empty key, so that no create of an empty
\* key takes part in a run that refutes it.)
NotFoundCanBeCreated ==
    [][ ( /\ pc = "menu"
          /\ req'.op = "create"
          /\ normalize_name(req'.name) # <<>>
          /\ find_client_file(index, files, req'.name) = None )
        => \/ /\ result' = "OK"
              /\ Resolves(index', files', req'.name)
           \/ /\ result' = "EmptyInput"
              /\ Rejected(req') ]_vars

=============================================================================
